---------------------------- MODULE Spec2Model ----------------------------
(***************************************************************************)
(* Model of main.py of DeepPokedex: the script that loads four pickled     *)
(* arrays, normalizes the images, builds two distributed datasets of       *)
(* labelled examples, assembles a shared-weight siamese network, trains it *)
(* and prints a same/different verdict per test example.                   *)
(*                                                                         *)
(* Arrays are records [shape, data]; data maps 0-based index tuples to     *)
(* values, as numpy does.  Lists (partitions, label arrays, collected      *)
(* predictions, standard output) are sequences.  Prediction scores are     *)
(* integers in units of 1/10000, so that 0.1 is 1000.                      *)
(***************************************************************************)
EXTENDS Integers, Sequences, FiniteSets, TLC

VARIABLES
    pc,                 \* position of the script
    error,              \* the uncaught exception that ended the run, or "none"
    disk,               \* contents of the four files under data_dir
    args,               \* parsed command line (num_epoch, batch_size)
    sc,                 \* the SparkContext: [running, parallelism]
    loaded,             \* names of the files deserialized so far
    train_img, train_lbl, test_img, test_lbl,
    t_train_img, t_test_img,
    NUM_TRAIN_SMP, IMAGE_SIZE, NUM_IMAGE_CHANNEL, NUM_TEST_SMP, NUM_CLASS_LABEL,
    train_rdd, test_rdd,
    input_shape,        \* declared input shape of the model graph
    both_feature,       \* pair slot -> the layer object that encodes it
    predict_dim,        \* output_dim of the head
    params,             \* layer object -> [value, writes]
    optimizer,          \* [built, epoch, step, consumed]: consumed counts the
                        \* examples of the current epoch already used
    job,                \* the running Spark job: [rdd, pending]
    examples,           \* rdd name -> partition -> examples the last job built
    consumptions,       \* rdd name -> number of jobs run over that rdd
    pokemon_model,      \* TRUE once optimize() has returned
    predictions,        \* the collected score vectors
    ri,                 \* number of predictions the report loop has handled
    stdout              \* the lines printed so far

vars == <<pc, error, disk, args, sc, loaded, train_img, train_lbl, test_img,
          test_lbl, t_train_img, t_test_img, NUM_TRAIN_SMP, IMAGE_SIZE,
          NUM_IMAGE_CHANNEL, NUM_TEST_SMP, NUM_CLASS_LABEL, train_rdd, test_rdd,
          input_shape, both_feature, predict_dim, params, optimizer, job,
          examples, consumptions, pokemon_model, predictions, ri, stdout>>

-----------------------------------------------------------------------------
(* Bounds of the model *)

MaxN == 3           \* samples per split
MaxLabel == 2       \* largest raw class index in a label file
MaxSlices == 3      \* partitions of a distributed collection
MaxEpochs == 2      \* --num_epoch

Pairs == {2, 3}             \* sizes of the pair-slot axis
Sizes == {1, 2}             \* heights and widths
Channels == {1, 2}          \* channel counts
PixelSeeds == {0, 224}      \* first pixel of a generated image array
LabelSeeds == {0, 1}        \* first class index of a generated label file
BatchSizes == {1, 2}        \* --batch_size
(* gradients one step may send to the left branch, the right branch, the head *)
Grads == {[left |-> 1, right |-> 2, head |-> 1], [left |-> 2, right |-> 1, head |-> 1],
          [left |-> 1, right |-> 1, head |-> 1]}

(* Program constants *)

Divisor == 225              \* main.py:73
Threshold == 1000           \* 0.1 in units of 1/10000, main.py:209

-----------------------------------------------------------------------------
(* Helpers *)

Min(a, b) == IF a < b THEN a ELSE b
Max(a, b) == IF a > b THEN a ELSE b
Abs(x) == IF x < 0 THEN -x ELSE x
Range(f) == {f[x] : x \in DOMAIN f}

RECURSIVE IndexSet(_)
IndexSet(shape) ==
    IF shape = <<>> THEN {<<>>}
    ELSE {<<i>> \o r : i \in 0..(shape[1] - 1), r \in IndexSet(Tail(shape))}

RECURSIVE LinearIndex(_, _)
LinearIndex(idx, shape) ==
    IF idx = <<>> THEN 0
    ELSE LinearIndex(SubSeq(idx, 1, Len(idx) - 1), SubSeq(shape, 1, Len(shape) - 1))
             * shape[Len(shape)] + idx[Len(idx)]

RECURSIVE Concat(_, _)
Concat(parts, k) ==
    IF k \notin DOMAIN parts THEN <<>> ELSE parts[k] \o Concat(parts, k + 1)

NoArray == [shape |-> <<>>, data |-> <<>>]
NoRdd == [images |-> <<>>, labels |-> <<>>]

(* The contents of an image file: 8-bit pixels, all different within one array *)
MakeImages(shape, seed) ==
    [shape |-> shape,
     data |-> [idx \in IndexSet(shape) |-> (seed + LinearIndex(idx, shape)) % 256]]

(* The contents of a label file: class indices *)
MakeLabels(m, seed) == [i \in 1..m |-> (seed + i - 1) % (MaxLabel + 1)]


-----------------------------------------------------------------------------
(* numpy: ndarray.transpose(axes), ndarray / scalar, list(ndarray) *)

TransposeAxes == <<0, 1, 4, 2, 3>>

Transpose(a, axes) ==
    LET newshape == [j \in 1..Len(a.shape) |-> a.shape[axes[j] + 1]]
        src(idx) == [d \in 1..Len(a.shape) |->
                        idx[CHOOSE j \in 1..Len(a.shape) : axes[j] + 1 = d]]
    IN  [shape |-> newshape,
         data |-> [idx \in IndexSet(newshape) |-> a.data[src(idx)]]]

(* true division: every element becomes the quotient num/den *)
Divide(a, d) ==
    [shape |-> a.shape,
     data |-> [idx \in DOMAIN a.data |-> [num |-> a.data[idx], den |-> d]]]

(* variant: the channel axis moved behind the pair axis by the wrong permutation *)
NormalizeWrongAxes(img) == Divide(Transpose(img, <<0, 1, 3, 4, 2>>), Divisor)

Normalize(img) == Divide(Transpose(img, TransposeAxes), Divisor)

(* element i of list(a): the sub-array at index i of the first axis *)
SubArray(a, i) ==
    [shape |-> Tail(a.shape),
     data |-> [idx \in IndexSet(Tail(a.shape)) |-> a.data[<<i>> \o idx]]]

ListOf(a) == [i \in 1..a.shape[1] |-> SubArray(a, i - 1)]

-----------------------------------------------------------------------------
(* Shape unpacking, main.py:76-77.  A shape is <<N, P, H, W, C>>. *)

(* variant: the channel count taken from the width axis *)
TrainDimsWidthAsChannels(shape) ==
    [NUM_TRAIN_SMP |-> shape[1], IMAGE_SIZE |-> shape[3], NUM_IMAGE_CHANNEL |-> shape[4]]

TrainDims(shape) ==
    [NUM_TRAIN_SMP |-> shape[1], IMAGE_SIZE |-> shape[3], NUM_IMAGE_CHANNEL |-> shape[5]]

TestDims(shape) == [NUM_TEST_SMP |-> shape[1], NUM_CLASS_LABEL |-> shape[2]]

(* variant: a channels-last input shape *)
InputShapeChannelsLast(P, C, H) == <<P, H, H, C>>

InputShape(P, C, H) == <<P, C, H, H>>

-----------------------------------------------------------------------------
(* pyspark: sc.parallelize(c), rdd.zip(other), rdd.map(f) *)

(* parallelize serializes c in batches of max(1, min(len(c) // numSlices,    *)
(* 1024)) elements and slices the batches into numSlices partitions.         *)
Parallelize(c, numSlices) ==
    LET n == Len(c)
        b == Max(1, Min(n \div numSlices, 1024))
        B == (n + b - 1) \div b
        lo(k) == ((k * B) \div numSlices) * b + 1
        hi(k) == Min((((k + 1) * B) \div numSlices) * b, n)
    IN  [k \in 0..(numSlices - 1) |-> SubSeq(c, lo(k), hi(k))]

Zip(left, right) == [images |-> left, labels |-> right]

(* variant: the shift applied a second time *)
SampleShiftTwice(feature, label) == [feature |-> feature, label |-> (label + 1) + 1]

(* the mapped lambda: Sample.from_ndarray(featurelabel[0], featurelabel[1] + 1) *)
Sample(feature, label) == [feature |-> feature, label |-> label + 1]

(* a partition can be zipped only when both sides hold equally many elements *)
CanZip(rdd, k) == Len(rdd.images[k]) = Len(rdd.labels[k])

(* variant: a zip that walks the label side from its end *)
ComputePartitionReversed(rdd, k) ==
    [j \in 1..Len(rdd.images[k]) |->
        Sample(rdd.images[k][j], rdd.labels[k][Len(rdd.labels[k]) + 1 - j])]

(* the task of partition k: zip element by element, then map *)
ComputePartition(rdd, k) ==
    [j \in 1..Len(rdd.images[k]) |-> Sample(rdd.images[k][j], rdd.labels[k][j])]

BuildRdd(images, labels, numSlices) ==
    Zip(Parallelize(ListOf(images), numSlices), Parallelize(labels, numSlices))

-----------------------------------------------------------------------------
(* The model graph *)

convolve_net == [layer |-> "convolve_net", copy |-> 0]
predict_dense == [layer |-> "predict", copy |-> 0]

(* variant: every slot encoded by its own copy of the layer *)
TimeDistributedCopies(layer, slots) ==
    [p \in 0..(slots - 1) |-> [layer |-> layer.layer, copy |-> p + 1]]

(* TimeDistributed(layer)(input): every slot of the time axis is encoded by  *)
(* the one layer object that was passed in                                   *)
TimeDistributed(layer, slots) == [p \in 0..(slots - 1) |-> layer]

(* both_feature.index_select(1, 0) and .index_select(1, 1) *)
encode_left == both_feature[0]
encode_right == both_feature[1]

(* gradient that reaches a layer object: the sum over the branches using it *)
GradOf(id, g) ==
    (IF encode_left = id THEN g.left ELSE 0) + (IF encode_right = id THEN g.right ELSE 0)
    + (IF predict_dense = id THEN g.head ELSE 0)

(* one optimizer step: each parameter set of the graph is written once *)
Updated(g) ==
    [id \in DOMAIN params |->
        [value |-> params[id].value + GradOf(id, g), writes |-> params[id].writes + 1]]

-----------------------------------------------------------------------------
(* The report, main.py:208-212 *)

(* variant: a non-strict comparison *)
VerdictInclusive(i) ==
    IF Abs(i[1] - i[2]) <= Threshold THEN "Same Pokemon" ELSE "Different Pokemon"

Verdict(i) ==
    IF Abs(i[1] - i[2]) < Threshold THEN "Same Pokemon" ELSE "Different Pokemon"

Line(kind) == [kind |-> kind, s0 |-> 0, s1 |-> 0, suffix |-> ""]
Lines(kind, n) == [j \in 1..n |-> Line(kind)]
VerdictLine(i) == [kind |-> "verdict", s0 |-> i[1], s1 |-> i[2], suffix |-> Verdict(i)]

(* score pairs the trained model may return for an example (units of 1/10000) *)
ScorePairs ==
    << <<5000, 5000>>, <<5000, 4001>>, <<5000, 4000>>, <<5000, 3999>>,
       <<4001, 5000>>, <<4000, 5000>>, <<3999, 5000>>, <<0, 10000>> >>

Scores(seed, n, dim) ==
    [i \in 1..n |->
        [c \in 1..dim |->
            IF c <= 2 THEN ScorePairs[((seed + i - 1) % Len(ScorePairs)) + 1][c] ELSE 0]]

-----------------------------------------------------------------------------
(* Initial states: the command line, the files on disk and the cluster's   *)
(* default parallelism are the inputs of a run                             *)

FileNames == <<"train_image.pkl", "train_label.pkl", "test_image.pkl", "test_label.pkl">>

Disk(trainShape, trainLabels, testShape, testLabels, pixelSeed, labelSeed) ==
    [f \in Range(FileNames) |->
        CASE f = "train_image.pkl" -> MakeImages(trainShape, pixelSeed)
          [] f = "train_label.pkl" -> MakeLabels(trainLabels, labelSeed)
          [] f = "test_image.pkl" -> MakeImages(testShape, pixelSeed)
          [] f = "test_label.pkl" -> MakeLabels(testLabels, labelSeed)]

Start ==
    /\ pc = "args"
    /\ error = "none"
    /\ loaded = {}
    /\ train_img = NoArray /\ test_img = NoArray
    /\ train_lbl = <<>> /\ test_lbl = <<>>
    /\ t_train_img = NoArray /\ t_test_img = NoArray
    /\ NUM_TRAIN_SMP = 0 /\ IMAGE_SIZE = 0 /\ NUM_IMAGE_CHANNEL = 0
    /\ NUM_TEST_SMP = 0 /\ NUM_CLASS_LABEL = 0
    /\ train_rdd = NoRdd /\ test_rdd = NoRdd
    /\ input_shape = <<>>
    /\ both_feature = <<>>
    /\ predict_dim = 0
    /\ params = <<>>
    /\ optimizer = [built |-> FALSE, epoch |-> 0, step |-> 0, consumed |-> 0]
    /\ job = [rdd |-> "none", pending |-> {}]
    /\ examples = [train |-> <<>>, test |-> <<>>]
    /\ consumptions = [train |-> 0, test |-> 0]
    /\ pokemon_model = FALSE
    /\ predictions = <<>>
    /\ ri = 0
    /\ stdout = <<>>

(* Varied sample counts, label files, partitioning and hyperparameters;    *)
(* one-pixel one-channel image pairs whose width may disagree              *)
Init ==
    /\ Start
    /\ \E ntr \in 1..MaxN, nte \in 1..MaxN, dtr \in 0..1, dte \in 0..1,
          wtr \in Sizes, wte \in Sizes, ls \in LabelSeeds :
          disk = Disk(<<ntr, 2, 1, wtr, 1>>, ntr + dtr, <<nte, 2, 1, wte, 1>>, nte + dte, 0, ls)
    /\ args \in [num_epoch : 1..MaxEpochs, batch_size : BatchSizes]
    /\ sc \in [running : {FALSE}, parallelism : 1..MaxSlices]

(* Varied image shapes and pixel contents *)
InitShapes ==
    /\ Start
    /\ \E n \in 1..MaxN, ptr \in Pairs, pte \in Pairs, htr \in Sizes, hte \in Sizes,
          wtr \in Sizes, wte \in Sizes, ctr \in Channels, cte \in Channels,
          dte \in 0..1, ps \in PixelSeeds :
          disk = Disk(<<n, ptr, htr, wtr, ctr>>, n, <<n, pte, hte, wte, cte>>, n + dte, ps, 0)
    /\ args = [num_epoch |-> 1, batch_size |-> 1]
    /\ sc = [running |-> FALSE, parallelism |-> 1]

-----------------------------------------------------------------------------
(* The script, statement by statement *)

Abort(e) == pc' = "aborted" /\ error' = e

envVars == <<disk, args>>
dataVars == <<loaded, train_img, train_lbl, test_img, test_lbl>>
normVars == <<t_train_img, t_test_img>>
dimVars == <<NUM_TRAIN_SMP, IMAGE_SIZE, NUM_IMAGE_CHANNEL, NUM_TEST_SMP, NUM_CLASS_LABEL>>
rddVars == <<train_rdd, test_rdd>>
graphVars == <<input_shape, both_feature, predict_dim>>
jobVars == <<job, examples, consumptions>>

(* main.py:54-55: parse the command line and print it *)
ParseArgs ==
    /\ pc = "args"
    /\ pc' = "runtime"
    /\ stdout' = Append(stdout, Line("config"))
    /\ UNCHANGED <<error, envVars, sc, dataVars, normVars, dimVars, rddVars, graphVars,
                   params, optimizer, jobVars, pokemon_model, predictions, ri>>

(* main.py:58-64: SparkContext.getOrCreate, init_engine *)
RuntimeInit ==
    /\ pc = "runtime"
    /\ sc' = [sc EXCEPT !.running = TRUE]
    /\ pc' = "load"
    /\ UNCHANGED <<error, envVars, dataVars, normVars, dimVars, rddVars, graphVars,
                   params, optimizer, jobVars, pokemon_model, predictions, ri, stdout>>

NextFile == FileNames[Cardinality(loaded) + 1]

(* main.py:67-70: one pickle.load that succeeds *)
LoadOk ==
    /\ pc = "load"
    /\ LET f == NextFile IN
        /\ loaded' = loaded \cup {f}
        /\ train_img' = IF f = "train_image.pkl" THEN disk[f] ELSE train_img
        /\ train_lbl' = IF f = "train_label.pkl" THEN disk[f] ELSE train_lbl
        /\ test_img' = IF f = "test_image.pkl" THEN disk[f] ELSE test_img
        /\ test_lbl' = IF f = "test_label.pkl" THEN disk[f] ELSE test_lbl
        /\ pc' = IF Cardinality(loaded) + 1 = Len(FileNames) THEN "normalize" ELSE "load"
    /\ UNCHANGED <<error, envVars, sc, normVars, dimVars, rddVars, graphVars,
                   params, optimizer, jobVars, pokemon_model, predictions, ri, stdout>>

(* variant: the failure is swallowed and the next file is tried *)
LoadFailSkipsFile ==
    /\ pc = "load"
    /\ loaded' = loaded \cup {NextFile}
    /\ error' = "IOError"
    /\ pc' = IF Cardinality(loaded) + 1 = Len(FileNames) THEN "normalize" ELSE "load"
    /\ UNCHANGED <<envVars, sc, train_img, train_lbl, test_img, test_lbl, normVars,
                   dimVars, rddVars, graphVars, params, optimizer, jobVars,
                   pokemon_model, predictions, ri, stdout>>

(* main.py:67-70: open or pickle.load raises (missing or malformed file);  *)
(* nothing catches it                                                      *)
LoadFail ==
    /\ pc = "load"
    /\ Abort("IOError")
    /\ UNCHANGED <<envVars, sc, dataVars, normVars, dimVars, rddVars, graphVars,
                   params, optimizer, jobVars, pokemon_model, predictions, ri, stdout>>

(* main.py:73-74 *)
NormalizeImages ==
    /\ pc = "normalize"
    /\ t_train_img' = Normalize(train_img)
    /\ t_test_img' = Normalize(test_img)
    /\ pc' = "shape"
    /\ UNCHANGED <<error, envVars, sc, dataVars, dimVars, rddVars, graphVars,
                   params, optimizer, jobVars, pokemon_model, predictions, ri, stdout>>

(* main.py:76-77 *)
DeriveShape ==
    /\ pc = "shape"
    /\ NUM_TRAIN_SMP' = TrainDims(train_img.shape).NUM_TRAIN_SMP
    /\ IMAGE_SIZE' = TrainDims(train_img.shape).IMAGE_SIZE
    /\ NUM_IMAGE_CHANNEL' = TrainDims(train_img.shape).NUM_IMAGE_CHANNEL
    /\ NUM_TEST_SMP' = TestDims(test_img.shape).NUM_TEST_SMP
    /\ NUM_CLASS_LABEL' = TestDims(test_img.shape).NUM_CLASS_LABEL
    /\ pc' = "rdd"
    /\ UNCHANGED <<error, envVars, sc, dataVars, normVars, rddVars, graphVars,
                   params, optimizer, jobVars, pokemon_model, predictions, ri, stdout>>

(* main.py:80-85: both collections are distributed now; zip and map are    *)
(* recorded and run when a job needs a partition                           *)
BuildRdds ==
    /\ pc = "rdd"
    /\ train_rdd' = BuildRdd(t_train_img, train_lbl, sc.parallelism)
    /\ test_rdd' = BuildRdd(t_test_img, test_lbl, sc.parallelism)
    /\ pc' = "model"
    /\ UNCHANGED <<error, envVars, sc, dataVars, normVars, dimVars, graphVars,
                   params, optimizer, jobVars, pokemon_model, predictions, ri, stdout>>

(* main.py:88-165: the graph; its parameter sets start untrained *)
BuildModel ==
    /\ pc = "model"
    /\ input_shape' = InputShape(NUM_CLASS_LABEL, NUM_IMAGE_CHANNEL, IMAGE_SIZE)
    /\ both_feature' = TimeDistributed(convolve_net, NUM_CLASS_LABEL)
    /\ predict_dim' = NUM_CLASS_LABEL
    /\ params' = [id \in Range(both_feature') \cup {predict_dense} |->
                     [value |-> 0, writes |-> 0]]
    /\ pc' = "optimizer"
    /\ UNCHANGED <<error, envVars, sc, dataVars, normVars, dimVars, rddVars,
                   optimizer, jobVars, pokemon_model, predictions, ri, stdout>>

(* main.py:168-192 *)
MakeOptimizer ==
    /\ pc = "optimizer"
    /\ optimizer' = [built |-> TRUE, epoch |-> 1, step |-> 0, consumed |-> 0]
    /\ pc' = "optimize"
    /\ UNCHANGED <<error, envVars, sc, dataVars, normVars, dimVars, rddVars, graphVars,
                   params, jobVars, pokemon_model, predictions, ri, stdout>>

-----------------------------------------------------------------------------
(* Jobs of the engine: one task per partition, in any order *)

Rdd(name) == IF name = "train" THEN train_rdd ELSE test_rdd

StartJob(name) ==
    /\ job' = [rdd |-> name, pending |-> DOMAIN Rdd(name).images]
    /\ examples' = [examples EXCEPT ![name] = [k \in DOMAIN Rdd(name).images |-> <<>>]]
    /\ consumptions' = [consumptions EXCEPT ![name] = @ + 1]

AfterJob(p) ==
    CASE p = "train_job" -> "train_step"
      [] p = "validate_job" -> "validate"
      [] p = "predict_job" -> "collect"

InJob == pc \in {"train_job", "validate_job", "predict_job"}

TaskOk ==
    /\ InJob
    /\ \E k \in job.pending :
        /\ CanZip(Rdd(job.rdd), k)
        /\ examples' = [examples EXCEPT ![job.rdd][k] = ComputePartition(Rdd(job.rdd), k)]
        /\ job' = [job EXCEPT !.pending = @ \ {k}]
        /\ pc' = IF job.pending = {k} THEN AfterJob(pc) ELSE pc
    /\ UNCHANGED <<error, envVars, sc, dataVars, normVars, dimVars, rddVars, graphVars,
                   params, optimizer, consumptions, pokemon_model, predictions, ri, stdout>>

(* the two sides of a partition differ in length: the task raises and the  *)
(* job, and with it the script, ends                                       *)
TaskFail ==
    /\ InJob
    /\ \E k \in job.pending : ~CanZip(Rdd(job.rdd), k)
    /\ Abort("ZipError")
    /\ UNCHANGED <<envVars, sc, dataVars, normVars, dimVars, rddVars, graphVars,
                   params, optimizer, jobVars, pokemon_model, predictions, ri, stdout>>

Built(name) == Concat(examples[name], 0)

FitsModel(name) == \A e \in Range(Built(name)) : e.feature.shape = input_shape

-----------------------------------------------------------------------------
(* The trainer, main.py:195-200.  The iterations, the per-epoch validation *)
(* and the end trigger are those of Optimizer with MaxEpoch(num_epoch) and *)
(* EveryEpoch(); the numbers a step computes are left open (Grads).        *)

(* optimizer.optimize() begins: the training set is materialized once *)
Optimize ==
    /\ pc = "optimize"
    /\ stdout' = stdout \o Lines("banner", 4)
    /\ StartJob("train")
    /\ pc' = "train_job"
    /\ UNCHANGED <<error, envVars, sc, dataVars, normVars, dimVars, rddVars, graphVars,
                   params, optimizer, pokemon_model, predictions, ri>>

(* one iteration over a batch; after the last batch of the epoch the       *)
(* EveryEpoch trigger starts the validation job                            *)
GradientStep ==
    /\ pc = "train_step"
    /\ FitsModel("train")
    /\ \E g \in Grads : params' = Updated(g)
    /\ LET n == Min(optimizer.consumed + args.batch_size, Len(Built("train"))) IN
        IF n = Len(Built("train"))
        THEN /\ optimizer' = [optimizer EXCEPT !.step = @ + 1, !.consumed = 0]
             /\ StartJob("test")
             /\ pc' = "validate_job"
        ELSE /\ optimizer' = [optimizer EXCEPT !.step = @ + 1, !.consumed = n]
             /\ UNCHANGED jobVars
             /\ pc' = "train_step"
    /\ UNCHANGED <<error, envVars, sc, dataVars, normVars, dimVars, rddVars, graphVars,
                   pokemon_model, predictions, ri, stdout>>

(* a training example does not have the declared input shape *)
TrainShapeError ==
    /\ pc = "train_step"
    /\ ~FitsModel("train")
    /\ Abort("ShapeError")
    /\ UNCHANGED <<envVars, sc, dataVars, normVars, dimVars, rddVars, graphVars,
                   params, optimizer, jobVars, pokemon_model, predictions, ri, stdout>>

(* Top1Accuracy over the held-out set ends the epoch; MaxEpoch(num_epoch)  *)
(* ends optimize(), which returns the trained model                        *)
Validate ==
    /\ pc = "validate"
    /\ FitsModel("test")
    /\ optimizer' = [optimizer EXCEPT !.epoch = @ + 1]
    /\ IF optimizer.epoch >= args.num_epoch
       THEN /\ pokemon_model' = TRUE
            /\ stdout' = Append(stdout, Line("banner"))
            /\ pc' = "predict"
       ELSE /\ UNCHANGED <<pokemon_model, stdout>>
            /\ pc' = "train_step"
    /\ UNCHANGED <<error, envVars, sc, dataVars, normVars, dimVars, rddVars, graphVars,
                   params, jobVars, predictions, ri>>

(* a test example does not have the declared input shape *)
ValidateShapeError ==
    /\ pc = "validate"
    /\ ~FitsModel("test")
    /\ Abort("ShapeError")
    /\ UNCHANGED <<envVars, sc, dataVars, normVars, dimVars, rddVars, graphVars,
                   params, optimizer, jobVars, pokemon_model, predictions, ri, stdout>>

-----------------------------------------------------------------------------
(* The reporter, main.py:203-212 *)

(* variant: inference started without waiting for optimize() *)
PredictBeforeTrained ==
    /\ pc \in {"optimize", "predict"}
    /\ StartJob("test")
    /\ pc' = "predict_job"
    /\ UNCHANGED <<error, envVars, sc, dataVars, normVars, dimVars, rddVars, graphVars,
                   params, optimizer, pokemon_model, predictions, ri, stdout>>

(* pokemon_model.predict(test_rdd): the test set is materialized again *)
Predict ==
    /\ pc = "predict"
    /\ StartJob("test")
    /\ pc' = "predict_job"
    /\ UNCHANGED <<error, envVars, sc, dataVars, normVars, dimVars, rddVars, graphVars,
                   params, optimizer, pokemon_model, predictions, ri, stdout>>

(* variant: the last prediction is lost *)
CollectDropsLast ==
    /\ pc = "collect"
    /\ \E seed \in 0..(Len(ScorePairs) - 1) :
        predictions' = Scores(seed, Len(Built("test")) - 1, predict_dim)
    /\ stdout' = stdout \o Lines("header", 4)
    /\ pc' = "report"
    /\ UNCHANGED <<error, envVars, sc, dataVars, normVars, dimVars, rddVars, graphVars,
                   params, optimizer, jobVars, pokemon_model, ri>>

(* .collect(): one score vector of predict_dim components per example, in  *)
(* partition order; then the four header lines                             *)
Collect ==
    /\ pc = "collect"
    /\ \E seed \in 0..(Len(ScorePairs) - 1) :
        predictions' = Scores(seed, Len(Built("test")), predict_dim)
    /\ stdout' = stdout \o Lines("header", 4)
    /\ pc' = "report"
    /\ UNCHANGED <<error, envVars, sc, dataVars, normVars, dimVars, rddVars, graphVars,
                   params, optimizer, jobVars, pokemon_model, ri>>

(* one iteration of the for loop *)
ReportLine ==
    /\ pc = "report"
    /\ ri < Len(predictions)
    /\ stdout' = Append(stdout, VerdictLine(predictions[ri + 1]))
    /\ ri' = ri + 1
    /\ pc' = IF ri + 1 = Len(predictions) THEN "done" ELSE "report"
    /\ UNCHANGED <<error, envVars, sc, dataVars, normVars, dimVars, rddVars, graphVars,
                   params, optimizer, jobVars, pokemon_model, predictions>>

Next ==
    \/ ParseArgs \/ RuntimeInit \/ LoadOk \/ LoadFail \/ NormalizeImages
    \/ DeriveShape \/ BuildRdds \/ BuildModel \/ MakeOptimizer
    \/ Optimize \/ TaskOk \/ TaskFail \/ GradientStep \/ TrainShapeError
    \/ Validate \/ ValidateShapeError \/ Predict \/ Collect \/ ReportLine

Spec == Init /\ [][Next]_vars

SpecShapes == InitShapes /\ [][Next]_vars

-----------------------------------------------------------------------------
(* Vocabulary of the properties *)

Splits == {"train", "test"}
Raw(s) == IF s = "train" THEN train_img ELSE test_img
Normalized(s) == IF s = "train" THEN t_train_img ELSE t_test_img
Labels(s) == IF s = "train" THEN train_lbl ELSE test_lbl
ImageFile(s) == IF s = "train" THEN "train_image.pkl" ELSE "test_image.pkl"

(* the stages of the pipeline, by position of the script *)
StageOf(p) ==
    CASE p = "args" -> 1
      [] p = "runtime" -> 2
      [] p = "load" -> 3
      [] p \in {"normalize", "shape", "rdd"} -> 4
      [] p = "model" -> 5
      [] p \in {"optimizer", "optimize", "train_job", "train_step",
                "validate_job", "validate"} -> 6
      [] p \in {"predict", "predict_job", "collect", "report"} -> 7
      [] p = "done" -> 8
      [] p = "aborted" -> 9

VerdictLines == SelectSeq(stdout, LAMBDA l : l.kind = "verdict")
JobComplete(s) == consumptions[s] > 0 /\ (job.rdd = s => job.pending = {})

-----------------------------------------------------------------------------
(* C1 -- Pairing alignment.  In a split whose image file and label file    *)
(* hold the same number of samples (the data model's invariant on the      *)
(* input), every example a task has built combines normalized image i      *)
(* with label i of that split for one index i, never image i with label j  *)
(* for j # i, whatever the number of partitions and the order of the       *)
(* tasks; a finished job has built exactly one example per index.          *)
C1_PairingAligned ==
    \A s \in Splits :
        (consumptions[s] > 0 /\ Len(Labels(s)) = Normalized(s).shape[1]) =>
            LET imgs == ListOf(Normalized(s))
                built == Built(s)
            IN  /\ \A j \in DOMAIN built :
                    /\ \E i \in DOMAIN imgs : built[j].feature = imgs[i]
                    /\ \A i \in DOMAIN imgs :
                          built[j].feature = imgs[i] => built[j].label = Labels(s)[i] + 1
                /\ \A j1, j2 \in DOMAIN built :
                      built[j1].feature = built[j2].feature => j1 = j2
                /\ JobComplete(s) => Len(built) = Len(imgs)

(* a job over three or more samples in two or more partitions has built    *)
(* examples of a split with matching counts, out of partition order        *)
C1_Witness ==
    \E s \in Splits :
        /\ consumptions[s] > 0
        /\ Len(Labels(s)) = Normalized(s).shape[1]
        /\ Len(Labels(s)) >= 3
        /\ job.rdd = s
        /\ \E k1, k2 \in DOMAIN examples[s] :
              k1 < k2 /\ k1 \in job.pending /\ examples[s][k2] # <<>>

(* C2 -- Label shift.  The label of every example a task has built is the  *)
(* raw label at the same place of the label file plus one, in the first    *)
(* job over a dataset and in every later one; the distributed labels stay  *)
(* the raw labels of the file.                                             *)
C2_LabelShiftOnce ==
    \A s \in Splits :
        consumptions[s] > 0 =>
            /\ Concat(Rdd(s).labels, 0) = Labels(s)
            /\ Labels(s) = disk[IF s = "train" THEN "train_label.pkl" ELSE "test_label.pkl"]
            /\ \A k \in DOMAIN examples[s] :
                  \A j \in DOMAIN examples[s][k] :
                      examples[s][k][j].label = Rdd(s).labels[k][j] + 1

(* the test dataset is being consumed for the third time (two validations, *)
(* then predict) and examples have been built                              *)
C2_Witness ==
    /\ consumptions["test"] >= 3
    /\ pc = "collect"
    /\ Len(Built("test")) >= 2

(* C3 -- Decision rule.  Every verdict line is "Same Pokemon" exactly when *)
(* the two scores it prints differ by strictly less than 0.1, and          *)
(* "Different Pokemon" otherwise; the scores are those of the prediction   *)
(* the line reports.                                                       *)
C3_DecisionRule ==
    \A j \in DOMAIN VerdictLines :
        LET l == VerdictLines[j] IN
        /\ l.s0 = predictions[j][1] /\ l.s1 = predictions[j][2]
        /\ (l.suffix = "Same Pokemon") <=>
              (l.s0 - l.s1 < Threshold /\ l.s1 - l.s0 < Threshold)
        /\ (l.suffix = "Different Pokemon") <=>
              (l.s0 - l.s1 >= Threshold \/ l.s1 - l.s0 >= Threshold)

(* one report holds differences of 0.0999, 0.1 and 0.1001 *)
C3_Witness ==
    /\ \E l \in Range(VerdictLines) : Abs(l.s0 - l.s1) = Threshold - 1 /\ l.suffix = "Same Pokemon"
    /\ \E l \in Range(VerdictLines) : Abs(l.s0 - l.s1) = Threshold /\ l.suffix = "Different Pokemon"
    /\ \E l \in Range(VerdictLines) : Abs(l.s0 - l.s1) = Threshold + 1 /\ l.suffix = "Different Pokemon"

(* C4 -- Report completeness.  Once the reporter runs, there is one        *)
(* collected prediction per test sample; the loop has printed one verdict  *)
(* line for each prediction handled so far, in order, each ending in one   *)
(* of the two suffixes; at the end there is one line per test sample.      *)
C4_ReportComplete ==
    /\ pc \in {"report", "done"} =>
          /\ Len(predictions) = NUM_TEST_SMP
          /\ NUM_TEST_SMP = test_img.shape[1]
          /\ Len(predictions) = Len(disk["test_label.pkl"])
    /\ Len(VerdictLines) = ri
    /\ ri <= Len(predictions)
    /\ pc = "done" => Len(VerdictLines) = Len(predictions)
    /\ \A j \in DOMAIN VerdictLines :
          /\ VerdictLines[j].suffix \in {"Same Pokemon", "Different Pokemon"}
          /\ VerdictLines[j].s0 = predictions[j][1]
          /\ VerdictLines[j].s1 = predictions[j][2]

(* a finished report over three test samples *)
C4_Witness == pc = "done" /\ Len(VerdictLines) = 3 /\ NUM_TEST_SMP = 3

(* a step stays in its stage, enters the next one, or aborts the run *)
C5_StageStep ==
    \/ StageOf(pc') = StageOf(pc)
    \/ StageOf(pc') = StageOf(pc) + 1
    \/ pc' = "aborted"

(* what exists at a position of the script *)
C5_AfterTraining ==
    /\ (StageOf(pc) \in {7, 8} \/ predictions # <<>> \/ VerdictLines # <<>>) =>
          (pokemon_model /\ optimizer.epoch > args.num_epoch)
    /\ StageOf(pc) <= 5 => (~optimizer.built /\ consumptions = [train |-> 0, test |-> 0])
    /\ StageOf(pc) <= 4 => params = <<>>
    /\ StageOf(pc) <= 3 => (train_rdd = NoRdd /\ t_train_img = NoArray)
    /\ StageOf(pc) <= 2 => loaded = {}
    /\ StageOf(pc) <= 1 => ~sc.running

(* C5 -- Linear control flow.  The stage of the script never goes back and *)
(* never skips a stage (a run may only abort); so each stage runs at most  *)
(* once and in the order args, runtime, load, dataset, model, trainer,     *)
(* reporter.  The prediction job, the collected predictions and every      *)
(* verdict line exist only after optimize() has returned the model, which  *)
(* is after num_epoch epochs.                                              *)
C5_LinearControlFlow == [](C5_AfterTraining) /\ [][C5_StageStep]_vars

(* the reporter has printed after a training of two epochs *)
C5_Witness == pc = "done" /\ args.num_epoch = 2 /\ VerdictLines # <<>>

(* C6 -- Fatal I/O errors.  When a pickle.load has failed the run is over: *)
(* the script is in its aborted state with no step left to take, no        *)
(* dataset was built, no graph assembled, no trainer made or run, and no   *)
(* prediction or verdict line exists; files loaded before stay loaded and  *)
(* nothing is done with them.                                              *)
C6_LoadFailureFatal ==
    error = "IOError" =>
        /\ pc = "aborted"
        /\ ~ENABLED Next
        /\ Cardinality(loaded) < Len(FileNames)
        /\ t_train_img = NoArray /\ t_test_img = NoArray
        /\ train_rdd = NoRdd /\ test_rdd = NoRdd
        /\ input_shape = <<>> /\ params = <<>>
        /\ ~optimizer.built /\ ~pokemon_model
        /\ consumptions = [train |-> 0, test |-> 0]
        /\ predictions = <<>> /\ VerdictLines = <<>>

(* the third load failed after two files were read *)
C6_Witness == error = "IOError" /\ Cardinality(loaded) = 2 /\ train_lbl # <<>>

(* C7 (as stated) -- each array's own shape gives all four components:     *)
(* the values the script uses as sample count, pair count, size and        *)
(* channel count of a split are N, P, H and C of that split's array.       *)
C7_OwnShape ==
    StageOf(pc) >= 4 /\ pc \notin {"normalize", "shape", "aborted"} =>
        /\ <<NUM_TRAIN_SMP, NUM_CLASS_LABEL, IMAGE_SIZE, NUM_IMAGE_CHANNEL>> =
              <<train_img.shape[1], train_img.shape[2], train_img.shape[3], train_img.shape[5]>>
        /\ <<NUM_TEST_SMP, NUM_CLASS_LABEL, IMAGE_SIZE, NUM_IMAGE_CHANNEL>> =
              <<test_img.shape[1], test_img.shape[2], test_img.shape[3], test_img.shape[5]>>

(* C7 (amended) -- the sample count of each split is read from that        *)
(* split's array; size and channel count are H and C of the training array *)
(* and the pair count is P of the test array.                              *)
C7_ShapeDerivation ==
    StageOf(pc) >= 4 /\ pc \notin {"normalize", "shape", "aborted"} =>
        /\ NUM_TRAIN_SMP = train_img.shape[1]
        /\ IMAGE_SIZE = train_img.shape[3]
        /\ NUM_IMAGE_CHANNEL = train_img.shape[5]
        /\ NUM_TEST_SMP = test_img.shape[1]
        /\ NUM_CLASS_LABEL = test_img.shape[2]

(* shapes were derived from arrays that differ in P, H and C, and whose    *)
(* width differs from their height                                         *)
C7_Witness ==
    /\ pc = "rdd"
    /\ train_img.shape[2] # test_img.shape[2]
    /\ train_img.shape[3] # test_img.shape[3]
    /\ train_img.shape[5] # test_img.shape[5]
    /\ train_img.shape[4] # train_img.shape[3]
    /\ train_img.shape[4] # train_img.shape[5]

(* C8 -- Weight sharing.  Pair slot 0 and pair slot 1 are encoded by one   *)
(* and the same layer object, so the parameters behind both branches are   *)
(* equal before training and after every gradient step, and every step     *)
(* has written each parameter set of the graph exactly once.               *)
C8_WeightSharing ==
    both_feature # <<>> =>
        /\ params[encode_left] = params[encode_right]
        /\ Cardinality({both_feature[p] : p \in DOMAIN both_feature}) = 1
        /\ \A id \in DOMAIN params : params[id].writes = optimizer.step

(* three gradient steps have been taken *)
C8_Witness == both_feature # <<>> /\ optimizer.step >= 3 /\ params[encode_left].writes >= 3

(* C9 -- Normalization.  The normalized array of a split has shape         *)
(* (N, pair, C, H, W); its element (n, p, c, h, w) is the input element    *)
(* (n, p, h, w, c) divided by 225; the input array is still the array of   *)
(* the file.                                                               *)
C9_Normalization ==
    StageOf(pc) >= 4 /\ pc \notin {"normalize", "aborted"} =>
        \A s \in Splits :
            LET a == Raw(s)
                t == Normalized(s)
                N == a.shape[1]  P == a.shape[2]  H == a.shape[3]
                W == a.shape[4]  C == a.shape[5]
            IN  /\ a = disk[ImageFile(s)]
                /\ t.shape = <<N, P, C, H, W>>
                /\ DOMAIN t.data = (0..N-1) \X (0..P-1) \X (0..C-1) \X (0..H-1) \X (0..W-1)
                /\ \A n \in 0..N-1, p \in 0..P-1, c \in 0..C-1, h \in 0..H-1, w \in 0..W-1 :
                      /\ t.data[<<n, p, c, h, w>>].den = 225
                      /\ t.data[<<n, p, c, h, w>>].num = a.data[<<n, p, h, w, c>>]

(* arrays whose height, width and channel count are not all equal were     *)
(* normalized                                                              *)
C9_Witness ==
    /\ pc = "shape"
    /\ train_img.shape[1] >= 2
    /\ train_img.shape[3] # train_img.shape[4]
    /\ train_img.shape[4] # train_img.shape[5]
    /\ test_img.shape[3] # test_img.shape[5]

(* C10 -- Model/data shape agreement.  The declared input shape is         *)
(* (P of test, C of train, H of train, H of train); it equals the          *)
(* per-sample shape of the normalized training examples and of the         *)
(* normalized test examples exactly when both arrays have the same P, H,   *)
(* W and C and H = W; the head's output dimension is P of the test array.  *)
C10_ShapeAgreement ==
    StageOf(pc) >= 6 /\ pc # "aborted" =>
        LET tr == train_img.shape
            te == test_img.shape
        IN  /\ input_shape = <<te[2], tr[5], tr[3], tr[3]>>
            /\ (input_shape = Tail(t_train_img.shape) /\ input_shape = Tail(t_test_img.shape))
                  <=> (/\ tr[2] = te[2] /\ tr[3] = te[3] /\ tr[4] = te[4] /\ tr[5] = te[5]
                       /\ tr[3] = tr[4])
            /\ predict_dim = te[2]
            /\ \A e \in Range(Built("train")) : e.feature.shape = Tail(t_train_img.shape)
            /\ \A e \in Range(Built("test")) : e.feature.shape = Tail(t_test_img.shape)

(* a run whose shapes agree has trained and reported, with 2x2 images of   *)
(* two channels and three pair slots                                       *)
C10_Witness ==
    /\ pc = "done"
    /\ input_shape = <<3, 2, 2, 2>>
    /\ input_shape = Tail(t_train_img.shape)
    /\ input_shape = Tail(t_test_img.shape)

=============================================================================
